---- MODULE Spec2Model ----
(***************************************************************************)
(* Age-Gender-Predictor: the benchmark evaluator's helpers (testing.py)    *)
(* and the 10-fold training loop (train.py).                               *)
(*                                                                         *)
(* Four specifications share the module:                                  *)
(*   SpecAlign    get_one_aligned_face and resize_image on small images    *)
(*   SpecMetrics  get_metrics on small prediction / label arrays           *)
(*   Spec         main() of train.py: the fold loop, one step per action   *)
(*   SpecSteps    the same loop, started over a range of dataset sizes,    *)
(*                batch sizes and replica counts                           *)
(* Python values that a name may or may not hold are tagged records        *)
(* [t |-> <type>, ...]; a name that is not bound is Unbound.               *)
(***************************************************************************)
EXTENDS Integers, Sequences, FiniteSets, TLC

VARIABLES
    \* ---- testing.py: get_one_aligned_face / resize_image
    image,          \* the input image: [w, h] (shape[1], shape[0])
    rects,          \* what detector(image, 1) returns: a sequence of rectangles
    size,           \* the size argument
    face,           \* outcome of get_one_aligned_face, or NotCalled
    resized,        \* outcome of resize_image, or NotCalled
    \* ---- testing.py: get_metrics
    age_predicted, gender_predicted, age_true, gender_true,
    scores,         \* outcome of get_metrics, or NotCalled
    \* ---- train.py: main
    pc,             \* position of main() in the fold loop
    GPU, MODEL, EPOCH, BATCH_SIZE,
    nRows,          \* len(ageLabel)
    n_fold,
    kf_split,       \* the splits the KFold generator has yielded so far
    train_idx, test_idx,    \* the split's index arrays (their lengths)
    model, trainModel,
    trainAge, testAge,      \* the fold's train / test label arrays (their lengths)
    losses, metrics, callbacks,
    hist,
    compiled,       \* the model objects compile() has been called on
    fit,            \* the fit_generator call in progress: target and arguments
    history,        \* the History callback of the fit in progress
    trainweight,    \* directory trainweight/: file name -> weights stored
    history_dir     \* directory history/: the file names written

alignVars   == <<image, rects, size, face, resized>>
metricVars  == <<age_predicted, gender_predicted, age_true, gender_true, scores>>
trainVars   == <<pc, GPU, MODEL, EPOCH, BATCH_SIZE, nRows, n_fold, kf_split,
                 train_idx, test_idx, model, trainModel, trainAge, testAge,
                 losses, metrics, callbacks, hist, compiled, fit, history,
                 trainweight, history_dir>>
vars        == <<alignVars, metricVars, trainVars>>

\* ------------------------------------------------------------------ bounds
MaxDim   == 3       \* image width and height range over 1..MaxDim
MaxFaces == 2       \* the detector returns 0..MaxFaces rectangles
MaxLen   == 2       \* the evaluation set holds 1..MaxLen images
MaxGPU   == 2       \* --gpu ranges over 1..MaxGPU
MaxEpoch == 2       \* --epoch ranges over 1..MaxEpoch
MaxBatch == 4       \* --batch_size ranges over 1..MaxBatch (SpecSteps)
MaxExtraRows == 2   \* the dataset holds n_splits..n_splits+MaxExtraRows rows (SpecSteps)

\* ------------------------------------------------------------ Python values
NotCalled == [t |-> "NotCalled"]
Unbound   == [t |-> "Unbound"]
None      == [t |-> "None"]

PyInt(n)    == [t |-> "int", v |-> n]
PyBool(b)   == [t |-> "bool", b |-> b]
PyRects(s)  == [t |-> "rectangles", s |-> s]
Raise(e)    == [t |-> "raise", exc |-> e]
\* a numpy array, of which the model keeps the length
Arr(n)      == [t |-> "ndarray", len |-> n]

\* a == b between a dlib.rectangles and an int: neither side implements the
\* comparison, so Python falls back to identity and the result is the bool False.
PyEq(a, b) ==
    IF a.t # b.t THEN PyBool(FALSE)
    ELSE IF a.t = "int" THEN PyBool(a.v = b.v)
    ELSE IF a.t = "bool" THEN PyBool(a.b = b.b)
    ELSE PyBool(a.s = b.s)

\* len(x): defined for the sequence types, TypeError for bool and int.
PyLen(x) ==
    IF x.t = "rectangles" THEN PyInt(Len(x.s))
    ELSE Raise("TypeError")

\* truth value of an int or a bool in an if statement
PyTruth(x) == IF x.t = "int" THEN x.v # 0 ELSE x.b

\* the functions testing.py defines at module level (lines 23..200)
ModuleNames == {"get_data_list", "make_db", "get_one_aligned_face", "resize_image",
                "get_result", "get_metrics", "visualize", "main"}

\* ------------------------------------------------- testing.py: resize_image
\* cv2.copyMakeBorder(src, top, bottom, left, right, BORDER_CONSTANT, value):
\* the canvas grows by the four margins, the content sits at (left, top).
copyMakeBorder(img, top, bottom, left, right) ==
    [w |-> img.w + left + right, h |-> img.h + top + bottom,
     x0 |-> img.x0 + left, y0 |-> img.y0 + top, cw |-> img.cw, ch |-> img.ch]

\* cv2.resize(image, (size, size)): the canvas becomes size x size; the
\* padded canvas it was scaled from is kept as src.
cv2resize(img, sz) == [t |-> "image", w |-> sz, h |-> sz, src |-> img]

\* an image as loaded: the content fills the canvas
Loaded(im) == [w |-> im.w, h |-> im.h, x0 |-> 0, y0 |-> 0, cw |-> im.w, ch |-> im.h]

resize_image(im, sz) ==
    LET h == im.h
        w == im.w
        padded == IF w < h
                  THEN copyMakeBorder(Loaded(im), 0, 0, h - w, 0)
                  ELSE copyMakeBorder(Loaded(im), w - h, 0, 0, 0)
    IN  cv2resize(padded, sz)

\* margins of black around the content of a padded canvas
PadLeft(p)   == p.x0
PadRight(p)  == p.w - p.x0 - p.cw
PadTop(p)    == p.y0
PadBottom(p) == p.h - p.y0 - p.ch

\* ----------------------------------------- testing.py: get_one_aligned_face
\* the call resizeImage(image, size=size): the name is looked up in the module
CallByName(name, im, sz) ==
    IF name \in ModuleNames THEN resize_image(im, sz) ELSE Raise("NameError")

get_one_aligned_face(im, rs, sz) ==
    LET cond == PyLen(PyEq(PyRects(rs), PyInt(1)))       \* len(rects == 1)
    IN  IF cond.t = "raise"
        THEN [t |-> "raise", exc |-> cond.exc]
        ELSE IF PyTruth(cond)
        THEN [t |-> "return", branch |-> "aligned",
              aligned  |-> [t |-> "face_chip", rect |-> rs[1], w |-> sz, h |-> sz],
              position |-> [left |-> rs[1].left, top |-> rs[1].top,
                            right |-> rs[1].right, bottom |-> rs[1].bottom]]
        ELSE LET r == CallByName("resizeImage", im, sz)
             IN  IF r.t = "raise"
                 THEN [t |-> "raise", exc |-> r.exc]
                 ELSE [t |-> "return", branch |-> "fallback",
                       aligned  |-> r,
                       position |-> [left |-> 0, top |-> 0,
                                     right |-> im.w, bottom |-> im.h]]

\* ---------------------------------------------------- testing.py: get_metrics
\* a quotient of two ints under true division, kept exact
Quot(n, d) == [num |-> n, den |-> d]

RECURSIVE SumSeq(_)
SumSeq(s) == IF s = <<>> THEN 0 ELSE Head(s) + SumSeq(Tail(s))

Abs(x) == IF x < 0 THEN -x ELSE x

\* ArrayEq with the comparison inverted (a faulty variant)
ArrayNeq(a, b) == [i \in 1..Len(a) |-> IF a[i] # b[i] THEN 1 ELSE 0]

\* (a == b) on two arrays of one length: elementwise, True counted as 1 by sum()
ArrayEq(a, b) == [i \in 1..Len(a) |-> IF a[i] = b[i] THEN 1 ELSE 0]

\* ArrayAbsDiff with abs() left out (a faulty variant)
ArrayDiff(a, b) == [i \in 1..Len(a) |-> a[i] - b[i]]

\* abs(a - b) on two int64 arrays of one length (ages 0..100: no wrap-around)
ArrayAbsDiff(a, b) == [i \in 1..Len(a) |-> Abs(a[i] - b[i])]

get_metrics(ap, gp, at, gt) ==
    LET gender_acc == Quot(SumSeq(ArrayEq(gp, gt)), Len(gp))
        age_mae    == Quot(SumSeq(ArrayAbsDiff(ap, at)), Len(ap))
    IN  [t |-> "return", age_mae |-> age_mae, gender_acc |-> gender_acc]

\* ------------------------------------------------------------ train.py: main
n_splits == 10

Models == {"vgg16", "inceptionv3", "xception", "ssrnet", "mobilenetv2"}

INPUT_SIZE  == IF MODEL = "ssrnet" THEN 64 ELSE 140
CATEGORICAL == MODEL # "ssrnet"

\* KFold(n_splits=10).split over n rows: the first n % n_splits test folds hold
\* one row more than the others; i counts the splits already yielded.
KFoldTestSize(n, i)  == (n \div n_splits) + (IF i < n % n_splits THEN 1 ELSE 0)
KFoldTrainSize(n, i) == n - KFoldTestSize(n, i)

\* the class the MODEL branch instantiates (lines 102..125)
ModelClass(m) ==
    CASE m = "ssrnet"      -> "SSRNet"
      [] m = "vgg16"       -> "AgenderNetVGG16"
      [] m = "inceptionv3" -> "AgenderNetInceptionV3"
      [] m = "mobilenetv2" -> "AgenderNetMobileNetV2"
      [] OTHER             -> "AgenderNetXception"

\* a model instance is identified by the fold that created it
NewModel(m, k)       == [t |-> "model", cls |-> ModelClass(m), fold |-> k]
multi_gpu_model(b, g) == [t |-> "model", cls |-> "multi_gpu", fold |-> b.fold]

Losses(m) ==
    IF m = "ssrnet"
    THEN [t |-> "dict", age_prediction |-> "mae", gender_prediction |-> "mae"]
    ELSE [t |-> "dict", age_prediction |-> "categorical_crossentropy",
          gender_prediction |-> "categorical_crossentropy"]

Metrics(m) ==
    IF m = "ssrnet"
    THEN [t |-> "dict", age_prediction |-> "mae",
          gender_prediction |-> "binary_accuracy"]
    ELSE [t |-> "dict", age_prediction |-> "mae_fn", gender_prediction |-> "acc"]

\* the fields of the ModelCheckpoint file name template, in order
CheckpointTemplate(m) ==
    IF m = "ssrnet"
    THEN <<"epoch", "val_loss", "val_gender_prediction_binary_accuracy",
           "val_age_prediction_mean_absolute_error">>
    ELSE <<"epoch", "val_loss", "val_gender_prediction_acc",
           "val_age_prediction_mae">>

\* ModelCheckpoint(..., save_best_only=True): monitors val_loss, best starts at +Inf
PInf   == [inf |-> TRUE, v |-> 0]
Num(x) == [inf |-> FALSE, v |-> x]
ModelCheckpoint(tpl) == [t |-> "ModelCheckpoint", filepath |-> tpl, best |-> PInf]

\* Callbacks built once before the loop (a faulty variant): the checkpoint
\* callback of the fold before is kept,
\* with the best validation loss that fold reached
CallbacksReused(m) ==
    LET seen == IF hist = Unbound THEN {}
                ELSE {hist.history[i]["val_loss"] : i \in 1..Len(hist.history)}
        best == IF seen = {} THEN PInf
                ELSE Num(CHOOSE x \in seen : \A y \in seen : x <= y)
    IN  [t |-> "list",
         items |-> <<[t |-> "ModelCheckpoint", filepath |-> CheckpointTemplate(m),
                      best |-> best]>>]

Callbacks(m) ==
    [t |-> "list",
     items |-> IF m = "ssrnet"
               THEN <<ModelCheckpoint(CheckpointTemplate(m)),
                      [t |-> "DecayLearningRate", startEpoch |-> <<30, 60>>]>>
               ELSE <<ModelCheckpoint(CheckpointTemplate(m))>>]

\* np.less(current, best)
MonitorOp(current, best) == best.inf \/ current < best.v

\* StepsPerEpoch with the partial batch counted as a step (a faulty variant)
StepsPerEpochCeil(n, batch_size, gpu) ==
    (n + batch_size * gpu - 1) \div (batch_size * gpu)

\* len(trainAge) // (batch_size * GPU)
StepsPerEpoch(n, batch_size, gpu) == n \div (batch_size * gpu)

\* the validation results an epoch can end with, in units of 10^-5:
\* <<val_loss, validation gender accuracy, validation age error>>
EpochResults == { <<123461, 81234, 734512>>, <<98766, 86421, 612344>> }

\* the logs dict of an epoch under the metric names compile() was given
Logs(m, r) ==
    LET tpl == CheckpointTemplate(m)
    IN  [k \in {tpl[2], tpl[3], tpl[4]} |->
            IF k = tpl[2] THEN r[1] ELSE IF k = tpl[3] THEN r[2] ELSE r[3]]

\* "{:.4f}": a value in units of 10^-5 printed to 4 decimal places (units of 10^-4)
Fmt4f(x) == (x + 5) \div 10
\* "{:02d}": the decimal text of the number, at least two digits wide
Fmt02d(e) == e

\* filepath.format(epoch=epoch + 1, **logs)
FormatPath(tpl, epoch, logs) ==
    [i \in 1..Len(tpl) |-> IF tpl[i] = "epoch" THEN Fmt02d(epoch + 1)
                           ELSE Fmt4f(logs[tpl[i]])]

\* os.path.join('history', 'fold{}_p2.dict'.format(n_fold))
HistoryFile(k) == <<"fold", k, "_p2.dict">>

WriteFile(dir, name, content) ==
    [f \in DOMAIN dir \cup {name} |-> IF f = name THEN content ELSE dir[f]]

\* line 98..101: the for statement takes the next split, the body starts
NextFold ==
    /\ pc = "loop"
    /\ IF kf_split < n_splits
       THEN /\ train_idx' = Arr(KFoldTrainSize(nRows, kf_split))
            /\ test_idx' = Arr(KFoldTestSize(nRows, kf_split))
            /\ kf_split' = kf_split + 1
            /\ model' = None
            /\ trainModel' = None
            /\ pc' = "build"
       ELSE /\ pc' = "done"
            /\ UNCHANGED <<train_idx, test_idx, kf_split, model, trainModel>>
    /\ UNCHANGED <<GPU, MODEL, EPOCH, BATCH_SIZE, nRows, n_fold, trainAge, testAge,
                   losses, metrics, callbacks, hist, compiled, fit, history,
                   trainweight, history_dir>>
    /\ UNCHANGED <<alignVars, metricVars>>

\* line 102..134: a fresh model, the fold's slices of the label arrays
BuildModel ==
    /\ pc = "build"
    /\ model' = NewModel(MODEL, n_fold)
    /\ trainAge' = Arr(train_idx.len)
    /\ testAge' = Arr(test_idx.len)
    /\ pc' = "configure"
    /\ UNCHANGED <<GPU, MODEL, EPOCH, BATCH_SIZE, nRows, n_fold, kf_split, train_idx,
                   test_idx, trainModel, losses, metrics, callbacks, hist, compiled,
                   fit, history, trainweight, history_dir>>
    /\ UNCHANGED <<alignVars, metricVars>>

\* line 136..190: losses, metrics and callbacks by model kind, prepPhase2,
\* trainModel (the multi-GPU replica when GPU > 1) and its compile()
Configure ==
    /\ pc = "configure"
    /\ losses' = Losses(MODEL)
    /\ metrics' = Metrics(MODEL)
    /\ callbacks' = Callbacks(MODEL)
    /\ trainModel' = IF GPU > 1 THEN multi_gpu_model(model, GPU) ELSE model
    /\ compiled' = compiled \cup {trainModel'}
    /\ pc' = "fit"
    /\ UNCHANGED <<GPU, MODEL, EPOCH, BATCH_SIZE, nRows, n_fold, kf_split, train_idx,
                   test_idx, model, trainAge, testAge, hist, fit, history,
                   trainweight, history_dir>>
    /\ UNCHANGED <<alignVars, metricVars>>

\* the object main() hands to fitModel as its model argument (line 191)
FitTarget == model

\* line 191 and fitModel, line 59..69: model.fit_generator(...) is called; Keras
\* raises RuntimeError when the model it is called on was never compiled, and
\* nothing in main() catches it.
FitModel ==
    /\ pc = "fit"
    /\ fit' = [t |-> "fit_generator", target |-> FitTarget,
               input_size |-> INPUT_SIZE, categorical |-> CATEGORICAL,
               epochs |-> EPOCH,
               steps_per_epoch  |-> StepsPerEpoch(trainAge.len, BATCH_SIZE, GPU),
               validation_steps |-> StepsPerEpoch(testAge.len, BATCH_SIZE, GPU),
               max_queue_size |-> BATCH_SIZE * 2]
    /\ IF FitTarget \in compiled
       THEN /\ pc' = "training"
            /\ history' = [t |-> "History", model |-> FitTarget, history |-> <<>>]
       ELSE /\ pc' = "failed"
            /\ UNCHANGED history
    /\ UNCHANGED <<GPU, MODEL, EPOCH, BATCH_SIZE, nRows, n_fold, kf_split, train_idx,
                   test_idx, model, trainModel, trainAge, testAge, losses, metrics,
                   callbacks, hist, compiled, trainweight, history_dir>>
    /\ UNCHANGED <<alignVars, metricVars>>

\* inside fit_generator: one epoch ends with validation results r; History
\* appends the logs, ModelCheckpoint saves the weights when val_loss is below
\* its best and remembers the new best.
EpochEnd ==
    /\ pc = "training"
    /\ Len(history.history) < fit.epochs
    /\ \E r \in EpochResults :
        LET logs    == Logs(MODEL, r)
            epoch   == Len(history.history)
            ckpt    == callbacks.items[1]
            current == logs["val_loss"]
            name    == FormatPath(ckpt.filepath, epoch, logs)
        IN  /\ history' = [history EXCEPT !.history = Append(@, logs)]
            /\ IF MonitorOp(current, ckpt.best)
               THEN /\ callbacks' = [callbacks EXCEPT !.items[1].best = Num(current)]
                    /\ trainweight' = WriteFile(trainweight, name,
                                         [fold |-> fit.target.fold, epoch |-> epoch + 1])
               ELSE UNCHANGED <<callbacks, trainweight>>
    /\ UNCHANGED <<pc, GPU, MODEL, EPOCH, BATCH_SIZE, nRows, n_fold, kf_split, train_idx,
                   test_idx, model, trainModel, trainAge, testAge, losses, metrics,
                   hist, compiled, fit, history_dir>>
    /\ UNCHANGED <<alignVars, metricVars>>

\* fit_generator returns its History after the last epoch: hist = fitModel(...)
FitReturn ==
    /\ pc = "training"
    /\ Len(history.history) = fit.epochs
    /\ hist' = history
    /\ history' = NotCalled
    /\ fit' = NotCalled
    /\ pc' = "persist"
    /\ UNCHANGED <<GPU, MODEL, EPOCH, BATCH_SIZE, nRows, n_fold, kf_split, train_idx,
                   test_idx, model, trainModel, trainAge, testAge, losses, metrics,
                   callbacks, compiled, trainweight, history_dir>>
    /\ UNCHANGED <<alignVars, metricVars>>

\* line 196..197: pickle.dump(hist.history) into history/fold{n_fold}_p2.dict
PersistHistory ==
    /\ pc = "persist"
    /\ history_dir' = history_dir \cup {HistoryFile(n_fold)}
    /\ pc' = "teardown"
    /\ UNCHANGED <<GPU, MODEL, EPOCH, BATCH_SIZE, nRows, n_fold, kf_split, train_idx,
                   test_idx, model, trainModel, trainAge, testAge, losses, metrics,
                   callbacks, hist, compiled, fit, history, trainweight>>
    /\ UNCHANGED <<alignVars, metricVars>>

\* line 199..202: n_fold += 1 and the three del statements
Teardown ==
    /\ pc = "teardown"
    /\ n_fold' = n_fold + 1
    /\ trainAge' = Unbound
    /\ testAge' = Unbound
    /\ callbacks' = Unbound
    /\ model' = Unbound
    /\ trainModel' = Unbound
    /\ pc' = "loop"
    /\ UNCHANGED <<GPU, MODEL, EPOCH, BATCH_SIZE, nRows, kf_split, train_idx, test_idx,
                   losses, metrics, hist, compiled, fit, history, trainweight,
                   history_dir>>
    /\ UNCHANGED <<alignVars, metricVars>>

\* --------------------------------------------------- calls into testing.py
CallGetOneAlignedFace ==
    /\ face = NotCalled
    /\ face' = get_one_aligned_face(image, rects, size)
    /\ UNCHANGED <<image, rects, size, resized>>
    /\ UNCHANGED <<metricVars, trainVars>>

CallResizeImage ==
    /\ resized = NotCalled
    /\ resized' = resize_image(image, size)
    /\ UNCHANGED <<image, rects, size, face>>
    /\ UNCHANGED <<metricVars, trainVars>>

CallGetMetrics ==
    /\ scores = NotCalled
    /\ scores' = get_metrics(age_predicted, gender_predicted, age_true, gender_true)
    /\ UNCHANGED <<age_predicted, gender_predicted, age_true, gender_true>>
    /\ UNCHANGED <<alignVars, trainVars>>

\* ------------------------------------------------------------ initial states
\* rectangles the detector can report, and the sizes main() of train.py uses
RectChoices == { [left |-> 0, top |-> 0, right |-> 1, bottom |-> 1],
                 [left |-> 1, top |-> 1, right |-> 3, bottom |-> 2] }
Sizes       == {64, 140}
\* ages lie in 0..100
AgeValues   == {0, 30, 100}

RECURSIVE SeqsUpTo(_, _)
SeqsUpTo(S, n) ==
    IF n = 0 THEN {<<>>}
    ELSE LET shorter == SeqsUpTo(S, n - 1)
         IN  shorter \cup {Append(s, x) : s \in {q \in shorter : Len(q) = n - 1}, x \in S}

AlignIdle ==
    /\ image = [w |-> 1, h |-> 1]
    /\ rects = <<>>
    /\ size = 140
    /\ face = NotCalled
    /\ resized = NotCalled

MetricsIdle ==
    /\ age_predicted = <<0>>
    /\ gender_predicted = <<0>>
    /\ age_true = <<0>>
    /\ gender_true = <<0>>
    /\ scores = NotCalled

\* main() before the for statement (line 75..97), for the given ranges of
\* len(ageLabel), --batch_size, --gpu, --model and --epoch
TrainStart(Ns, Bs, Gs, Ms, Es) ==
    /\ nRows \in Ns
    /\ BATCH_SIZE \in Bs
    /\ GPU \in Gs
    /\ MODEL \in Ms
    /\ EPOCH \in Es
    /\ pc = "loop"
    /\ n_fold = 1
    /\ kf_split = 0
    /\ train_idx = Unbound /\ test_idx = Unbound
    /\ model = Unbound /\ trainModel = Unbound
    /\ trainAge = Unbound /\ testAge = Unbound
    /\ losses = Unbound /\ metrics = Unbound /\ callbacks = Unbound
    /\ hist = Unbound
    /\ compiled = {}
    /\ fit = NotCalled
    /\ history = NotCalled
    /\ trainweight = <<>>
    /\ history_dir = {}

TrainIdle == TrainStart({n_splits}, {1}, {1}, {"inceptionv3"}, {1})

InitAlign ==
    /\ image \in [w : 1..MaxDim, h : 1..MaxDim]
    /\ rects \in SeqsUpTo(RectChoices, MaxFaces)
    /\ size \in Sizes
    /\ face = NotCalled
    /\ resized = NotCalled
    /\ MetricsIdle
    /\ TrainIdle

InitMetrics ==
    /\ \E n \in 1..MaxLen :
        /\ age_predicted \in [1..n -> AgeValues]
        /\ age_true \in [1..n -> AgeValues]
        /\ gender_predicted \in [1..n -> {0, 1}]
        /\ gender_true \in [1..n -> {0, 1}]
    /\ scores = NotCalled
    /\ AlignIdle
    /\ TrainIdle

\* training runs over the smallest dataset KFold accepts, for every model
\* kind, replica count and epoch count
Init ==
    /\ TrainStart({n_splits}, {MaxBatch}, 1..MaxGPU, Models, 1..MaxEpoch)
    /\ AlignIdle
    /\ MetricsIdle

InitSteps ==
    /\ TrainStart(n_splits..(n_splits + MaxExtraRows), 1..MaxBatch, 1..MaxGPU,
                  {"inceptionv3"}, {1})
    /\ AlignIdle
    /\ MetricsIdle

NextAlign == CallGetOneAlignedFace \/ CallResizeImage

NextMetrics == CallGetMetrics

Next ==
    \/ NextFold
    \/ BuildModel
    \/ Configure
    \/ FitModel
    \/ EpochEnd
    \/ FitReturn
    \/ PersistHistory
    \/ Teardown

SpecAlign   == InitAlign /\ [][NextAlign]_vars
SpecMetrics == InitMetrics /\ [][NextMetrics]_vars
Spec        == Init /\ [][Next]_vars
SpecSteps   == InitSteps /\ [][Next]_vars

\* ====================================================================
\* Properties
\* ====================================================================

\* --------------------------------------------------------- testing.py
FullExtent(im) == [left |-> 0, top |-> 0, right |-> im.w, bottom |-> im.h]
RectBox(r)     == [left |-> r.left, top |-> r.top, right |-> r.right, bottom |-> r.bottom]

\* C1: get_one_aligned_face returns the aligned crop (face chip and the
\* detector rectangle as the bounding box) if and only if exactly one face is
\* detected, and the whole-image fallback for zero faces and for two or more.
C1_BranchByFaceCount ==
    face # NotCalled =>
        /\ face.t = "return"
        /\ (face.branch = "aligned" <=> Len(rects) = 1)
        /\ (Len(rects) # 1 => face.branch = "fallback")
        /\ (Len(rects) = 1 => face.position = RectBox(rects[1]))

\* C2: with zero faces detected, get_one_aligned_face returns normally with
\* the letterboxed resize of the whole image at the target size and the
\* bounding box {0, 0, W, H}.
C2_ZeroFacesFallback ==
    (face # NotCalled /\ Len(rects) = 0) =>
        /\ face.t = "return"
        /\ face.aligned = resize_image(image, size)
        /\ face.position = FullExtent(image)

\* C3: resize_image returns a size x size image, having padded only the
\* shorter dimension on one side: on the right when width < height, on the
\* top when height < width, not at all when width = height.
C3_ResizeLetterbox ==
    resized # NotCalled =>
        LET p == resized.src
            d == Abs(image.w - image.h)
        IN  /\ resized.w = size /\ resized.h = size
            /\ p.w = p.h
            /\ image.w < image.h =>
                 <<PadLeft(p), PadRight(p), PadTop(p), PadBottom(p)>> = <<0, d, 0, 0>>
            /\ image.h < image.w =>
                 <<PadLeft(p), PadRight(p), PadTop(p), PadBottom(p)>> = <<0, 0, d, 0>>
            /\ image.w = image.h =>
                 <<PadLeft(p), PadRight(p), PadTop(p), PadBottom(p)>> = <<0, 0, 0, 0>>

Matches(a, b) == {i \in 1..Len(a) : a[i] = b[i]}

\* C7: the gender accuracy get_metrics returns is the number of positions
\* where prediction and truth match divided by the length: 1.0 for identical
\* arrays, 0.0 for fully inverted ones.
C7_GenderAccuracy ==
    scores # NotCalled =>
        LET acc == scores.gender_acc
        IN  /\ acc.den = Len(gender_predicted)
            /\ acc.num = Cardinality(Matches(gender_predicted, gender_true))
            /\ gender_predicted = gender_true => acc.num = acc.den
            /\ (\A i \in 1..Len(gender_true) : gender_predicted[i] = 1 - gender_true[i])
                   => acc.num = 0

\* C7 witness: two images scored, one gender right and one wrong
C7_Witness ==
    /\ scores # NotCalled
    /\ Len(gender_predicted) = 2
    /\ Cardinality(Matches(gender_predicted, gender_true)) = 1
    /\ scores.gender_acc = Quot(1, 2)

RECURSIVE TotalGap(_, _, _)
TotalGap(a, b, n) ==
    IF n = 0 THEN 0
    ELSE (IF a[n] > b[n] THEN a[n] - b[n] ELSE b[n] - a[n]) + TotalGap(a, b, n - 1)

\* C8: the age error get_metrics returns is the mean of the absolute
\* differences |predicted[i] - true[i]|, and 0 for identical arrays.
C8_AgeMae ==
    scores # NotCalled =>
        LET mae == scores.age_mae
        IN  /\ mae.den = Len(age_predicted)
            /\ mae.num = TotalGap(age_predicted, age_true, Len(age_predicted))
            /\ age_predicted = age_true => mae.num = 0

\* C8 witness: two images scored, one age predicted too low and one too high
C8_Witness ==
    /\ scores # NotCalled
    /\ Len(age_predicted) = 2
    /\ age_predicted[1] < age_true[1]
    /\ age_predicted[2] > age_true[2]
    /\ scores.age_mae.num > 0

\* ----------------------------------------------------------- train.py
\* C4: the checkpoint file name written during fold k encodes k (with the
\* epoch and the validation metrics), so checkpoints written in two different
\* folds always have different file names: no fold writes a name that holds
\* the checkpoint of another fold.
C4_CheckpointNamesKeyedByFold ==
    [][\A f \in DOMAIN trainweight :
          f \in DOMAIN trainweight' => trainweight'[f].fold = trainweight[f].fold]_vars

\* C5: the steps_per_epoch passed to training is floor(training rows /
\* (batch_size * GPU)): the largest count of full batches, the remainder
\* rows dropped; 9 rows, batch size 4 and 1 replica give 2.
C5_StepsPerEpoch ==
    fit # NotCalled =>
        LET s    == fit.steps_per_epoch
            unit == BATCH_SIZE * GPU
            n    == KFoldTrainSize(nRows, n_fold - 1)
        IN  /\ trainAge = Arr(n)
            /\ s * unit <= n
            /\ n - s * unit \in 0..(unit - 1)
            /\ (n = 9 /\ BATCH_SIZE = 4 /\ GPU = 1) => s = 2

\* C5 witness: the fold with 9 training rows, batch size 4, 1 replica
C5_Witness ==
    /\ fit # NotCalled
    /\ trainAge = Arr(9) /\ BATCH_SIZE = 4 /\ GPU = 1
    /\ fit.steps_per_epoch = 2

\* the names main() binds inside the body of the for statement
FoldScoped == <<train_idx, test_idx, model, trainModel, trainAge, testAge,
                losses, metrics, callbacks, hist>>

\* C6: without a failing fold there are exactly 10 training runs, one after
\* another; the history of fold k is in the file keyed k once fold k has
\* trained and before fold k+1 starts; the fold counter goes up by one per
\* fold and is the only state carried from one fold to the next.
C6_FoldLoop ==
    /\ n_fold \in 1..(n_splits + 1)
    /\ pc = "done" => n_fold = n_splits + 1
    /\ pc \in {"loop", "done"} =>
          /\ kf_split = n_fold - 1
          /\ history_dir = {HistoryFile(k) : k \in 1..(n_fold - 1)}
          /\ \A i \in 1..Len(FoldScoped) : FoldScoped[i] = Unbound
    /\ pc \in {"build", "configure", "fit", "training", "persist"} =>
          /\ kf_split = n_fold
          /\ history_dir = {HistoryFile(k) : k \in 1..(n_fold - 1)}
    /\ pc = "persist" => hist.model.fold = n_fold /\ Len(hist.history) = EPOCH

\* the val_loss values of a history
ValLosses(h) == {h[i]["val_loss"] : i \in 1..Len(h)}

\* C9: an epoch saves the weights exactly when its validation loss is below
\* the validation loss of every earlier epoch of the same fold; what earlier
\* folds reached neither suppresses nor triggers a save.
C9_SaveOnImprovementInFold ==
    [][(pc = "training" /\ pc' = "training" /\ history' # history) =>
          LET cur == history'.history[Len(history'.history)]["val_loss"]
          IN  (trainweight' # trainweight) <=>
                  (\A l \in ValLosses(history.history) : cur < l)]_vars

\* C9 witness: the first epoch of a later fold saved its weights although
\* its validation loss is above the best of the fold before
C9_Witness ==
    /\ pc = "training" /\ n_fold > 1
    /\ Len(history.history) = 1
    /\ \E l \in ValLosses(hist.history) : l < history.history[1]["val_loss"]
    /\ callbacks.items[1].best = Num(history.history[1]["val_loss"])
    /\ \E f \in DOMAIN trainweight : trainweight[f] = [fold |-> n_fold, epoch |-> 1]

\* C10: for every replica count, fit_generator is called on the object that
\* was compiled with the fold's losses and metrics.
C10_FitOnCompiledModel ==
    fit # NotCalled => fit.target = trainModel /\ fit.target \in compiled

====
